---- MODULE Spec2Model ----
(***************************************************************************)
(* Model of process_contango.py: get_and_save_vix_contago and the script   *)
(* entry point.  A cell text is a sequence of one-character strings, so    *)
(* that str.replace, float() and the date parser are computed character by *)
(* character.  A float is held as an integer number of hundredths, which   *)
(* makes mul(0.01) exact on the whole numbers the cell alphabet can spell. *)
(***************************************************************************)
EXTENDS Integers, Sequences, FiniteSets, TLC

VARIABLES pc, argv, df, ci, file, ret, exitcode, raw, file0, failedAt

vars == <<pc, argv, df, ci, file, ret, exitcode, raw, file0, failedAt>>

(* ------------------------------ bounds -------------------------------- *)

\* Largest number of data rows (rows between the header copy and the footer).
MaxDataRows == 2

\* Largest number of data cells of a fetched table that differ from the
\* well-formed default table.
MaxOddCells == 1

(* ------------------------------- cells -------------------------------- *)

\* One shape for every cell, whatever it holds: k is the kind, s the text
\* of a string, v the number of a float (in hundredths), of an integer
\* label, of a date (its ordinal) or the sign of an infinity.
Str(s) == [k |-> "str", s |-> s, v |-> 0]
NaN == [k |-> "nan", s |-> <<>>, v |-> 0]
Num(v) == [k |-> "num", s |-> <<>>, v |-> v]
Inf(sign) == [k |-> "inf", s |-> <<>>, v |-> sign]
IntCell(i) == [k |-> "int", s |-> <<>>, v |-> i]
DateCell(d) == [k |-> "date", s |-> <<>>, v |-> d]
NaT == [k |-> "nat", s |-> <<>>, v |-> 0]
\* The value of a conversion that raises.
Err == [k |-> "err", s |-> <<>>, v |-> 0]

\* The column names the code looks up.
ColDate == <<"D", "a", "t", "e">>
ColContango21 == <<"C", "o", "n", "t", "a", "n", "g", "o", " ", "2", "/", "1">>
ColContango74 == <<"C", "o", "n", "t", "a", "n", "g", "o", " ", "7", "/", "4">>
ColCon74div3 == <<"C", "o", "n", " ", "7", "/", "4", " ", "d", "i", "v", " ", "3">>
\* A column of the source table the code does not name.
ColF1 == <<"F", "1">>

PctColumns == <<ColContango21, ColContango74, ColCon74div3>>

\* 0.01 as a divisor; also the number of float units in 1.0.
PctDivisor == 100

(* --------------------------- float(text) ------------------------------ *)

DigitChars == <<"0", "1", "2", "3", "4", "5", "6", "7", "8", "9">>

IsDigit(c) == \E i \in 1..Len(DigitChars) : DigitChars[i] = c

DigitVal(c) == (CHOOSE i \in 1..Len(DigitChars) : DigitChars[i] = c) - 1

AllDigits(s) == s # <<>> /\ \A i \in 1..Len(s) : IsDigit(s[i])

RECURSIVE DigitsValue(_)
DigitsValue(s) ==
    IF s = <<>> THEN 0
    ELSE 10 * DigitsValue(SubSeq(s, 1, Len(s) - 1)) + DigitVal(s[Len(s)])

\* Python's float() on the texts this alphabet spells: an optional minus
\* sign, then a run of digits, "inf" or "nan"; anything else raises.
ParseFloat(s) ==
    LET neg == s # <<>> /\ s[1] = "-"
        body == IF neg THEN Tail(s) ELSE s
        sign == IF neg THEN -1 ELSE 1
    IN  IF body = <<"i", "n", "f">> THEN Inf(sign)
        ELSE IF body = <<"n", "a", "n">> THEN NaN
        ELSE IF AllDigits(body) THEN Num(sign * DigitsValue(body) * PctDivisor)
        ELSE Err

(* ------------------------- pd.to_datetime ----------------------------- *)

\* The fields of s between the occurrences of ch.
RECURSIVE SplitOn(_, _)
SplitOn(s, ch) ==
    IF \A i \in 1..Len(s) : s[i] # ch THEN <<s>>
    ELSE LET i == CHOOSE j \in 1..Len(s) :
                      s[j] = ch /\ \A h \in 1..(j - 1) : s[h] # ch
         IN  <<SubSeq(s, 1, i - 1)>> \o SplitOn(SubSeq(s, i + 1, Len(s)), ch)

IsLeap(y) == (y % 4 = 0 /\ y % 100 # 0) \/ y % 400 = 0

DaysInMonth(y, m) ==
    IF m = 2 THEN (IF IsLeap(y) THEN 29 ELSE 28)
    ELSE IF m \in {4, 6, 9, 11} THEN 30 ELSE 31

\* The date parser on year-month-day texts: a four-digit year, then a
\* month and a day of one or two digits each, zero-padded or not.  A text
\* of another shape, or one naming no calendar day, raises.  A date is
\* held as a number that orders dates as the calendar does.
ParseDate(s) ==
    LET f == SplitOn(s, "-")
    IN  IF Len(f) # 3 THEN Err
        ELSE IF ~(AllDigits(f[1]) /\ AllDigits(f[2]) /\ AllDigits(f[3])) THEN Err
        ELSE IF Len(f[1]) # 4 \/ Len(f[2]) > 2 \/ Len(f[3]) > 2 THEN Err
        ELSE LET y == DigitsValue(f[1])
                 m == DigitsValue(f[2])
                 d == DigitsValue(f[3])
             IN  IF m \in 1..12 /\ d \in 1..DaysInMonth(y, m)
                 THEN DateCell((y * 12 + (m - 1)) * 31 + d)
                 ELSE Err

\* to_datetime as errors='coerce' would have it: a rejected text is NaT.
ToDatetimeCoerce(c) ==
    IF c.k = "str" /\ ParseDate(c.s) # Err THEN ParseDate(c.s) ELSE NaT

\* pd.to_datetime on one element of an object column: a missing cell is
\* NaT, a text is parsed.
ToDatetimeCell(c) ==
    IF c.k = "nan" THEN NaT
    ELSE IF c.k = "str" THEN ParseDate(c.s)
    ELSE Err

(* ------------------------- the column steps --------------------------- *)

\* s without any occurrence of ch: str.replace(ch, '').
RECURSIVE RemoveAll(_, _)
RemoveAll(s, ch) ==
    IF s = <<>> THEN <<>>
    ELSE IF s[1] = ch THEN RemoveAll(Tail(s), ch)
    ELSE <<s[1]>> \o RemoveAll(Tail(s), ch)

\* Series.str.replace('%', '') on one element: a non-string element
\* (a missing cell) comes out missing.
StrReplacePct(c) ==
    IF c.k = "str" THEN Str(RemoveAll(c.s, "%")) ELSE NaN

\* astype as errors='ignore' would have it: a text that spells no number
\* stays as it is.
AsFloatIgnoreErrors(c) ==
    IF c.k = "str" /\ ParseFloat(c.s) # Err THEN ParseFloat(c.s) ELSE c

\* Series.astype(float) on one element: a string goes through float(),
\* a float stays.
AsFloat(c) ==
    IF c.k = "str" THEN ParseFloat(c.s)
    ELSE IF c.k \in {"num", "inf", "nan"} THEN c
    ELSE Err

\* The percentage left unscaled.
Mul001None(c) == c

\* Series.mul(0.01) on one element.
Mul001(c) ==
    IF c.k = "num" THEN Num(c.v \div PctDivisor) ELSE c

\* replace('-', 0): the placeholder read as zero.
ReplaceDashByZero(c) ==
    IF c.k = "str" /\ c.s = <<"-">> THEN Num(0) ELSE c

\* The replacement matching any text that starts with "-".
ReplaceDashPrefix(c) ==
    IF c.k = "str" /\ c.s # <<>> /\ c.s[1] = "-" THEN NaN ELSE c

\* Series.replace('-', np.nan) on one element: only an element equal to
\* the whole text "-" is replaced.
ReplaceDash(c) ==
    IF c = Str(<<"-">>) THEN NaN ELSE c

(* --------------------------- the DataFrame ---------------------------- *)

\* cols: the column labels; idx: the row labels; rows: the rows, each a
\* sequence of cells parallel to cols; src: for each row, the position
\* (from 0) it had in the fetched table, kept for stating the claims only.
\* err marks the value of a step that raised.
Raise == [err |-> TRUE, cols |-> <<>>, idx |-> <<>>, rows |-> <<>>, src |-> <<>>]

NoDf == [err |-> FALSE, cols |-> <<>>, idx |-> <<>>, rows |-> <<>>, src |-> <<>>]

\* The frame read_html returns for a table of the given rows: integer
\* column labels and a RangeIndex.
RawFrame(rows) ==
    [err |-> FALSE,
     cols |-> IF rows = <<>> THEN <<>> ELSE [j \in 1..Len(rows[1]) |-> IntCell(j - 1)],
     idx |-> [i \in 1..Len(rows) |-> IntCell(i - 1)],
     rows |-> rows,
     src |-> [i \in 1..Len(rows) |-> i - 1]]

\* The position of the column labelled name, 0 when there is none.
ColPos(d, name) ==
    IF \E j \in 1..Len(d.cols) : d.cols[j] = Str(name)
    THEN CHOOSE j \in 1..Len(d.cols) : d.cols[j] = Str(name)
    ELSE 0

\* seq without its element at position p.
RemoveAt(seq, p) == SubSeq(seq, 1, p - 1) \o SubSeq(seq, p + 1, Len(seq))

\* df.columns = df.iloc[0]: the first row by position; an empty frame
\* raises IndexError.
SetColumns(d) ==
    IF Len(d.rows) = 0 THEN Raise ELSE [d EXCEPT !.cols = d.rows[1]]

\* df.drop(index=label, inplace=True): KeyError when no row has the label.
DropLabel(d, label) ==
    IF \E i \in 1..Len(d.idx) : d.idx[i] = IntCell(label)
    THEN LET p == CHOOSE i \in 1..Len(d.idx) : d.idx[i] = IntCell(label)
         IN  [d EXCEPT !.idx = RemoveAt(d.idx, p),
                       !.rows = RemoveAt(d.rows, p),
                       !.src = RemoveAt(d.src, p)]
    ELSE Raise

DropFirst(d) == DropLabel(d, 0)

\* The last row looked for one label too low.
DropLastOffByOne(d) == DropLabel(d, Len(d.rows) - 1)

DropLast(d) == DropLabel(d, Len(d.rows))

\* df[c] = col, where col was computed cell by cell from a column of the
\* frame: the statement raises when the computation raised on a cell.
SetColumn(d, p, col) ==
    IF \E i \in 1..Len(col) : col[i] = Err THEN Raise
    ELSE [d EXCEPT !.rows = [i \in 1..Len(d.rows) |->
                                [d.rows[i] EXCEPT ![p] = col[i]]]]

\* df['Date'] = pd.to_datetime(df['Date']): KeyError without the column.
ToDatetime(d) ==
    LET p == ColPos(d, ColDate)
    IN  IF p = 0 THEN Raise
        ELSE SetColumn(d, p, [i \in 1..Len(d.rows) |-> ToDatetimeCell(d.rows[i][p])])

\* df.set_index('Date'): the column becomes the row labels and leaves the
\* columns.
SetIndex(d) ==
    LET p == ColPos(d, ColDate)
    IN  IF p = 0 THEN Raise
        ELSE [d EXCEPT !.idx = [i \in 1..Len(d.rows) |-> d.rows[i][p]],
                       !.cols = RemoveAt(d.cols, p),
                       !.rows = [i \in 1..Len(d.rows) |-> RemoveAt(d.rows[i], p)]]

\* set_index without sort_index.
SortIndexNone(d) == {d}

\* a sorts no later than b: ascending, NaT last.
DateLeq(a, b) ==
    \/ b.k = "nat"
    \/ a.k = "date" /\ b.k = "date" /\ a.v <= b.v

IsMonotonic(idx) ==
    \A i \in 1..(Len(idx) - 1) :
        idx[i].k = "date" /\ idx[i + 1].k = "date" /\ idx[i].v <= idx[i + 1].v

RowOrders(n) ==
    {p \in [1..n -> 1..n] : \A i, j \in 1..n : i # j => p[i] # p[j]}

\* sort_index(): a frame whose labels already ascend is returned as it
\* is; otherwise the rows are argsorted with an unstable sort, so rows of
\* equal label may come out in any order.
SortIndex(d) ==
    IF IsMonotonic(d.idx) THEN {d}
    ELSE {[d EXCEPT !.idx = [i \in 1..Len(d.idx) |-> d.idx[p[i]]],
                    !.rows = [i \in 1..Len(d.idx) |-> d.rows[p[i]]],
                    !.src = [i \in 1..Len(d.idx) |-> d.src[p[i]]]] :
            p \in {q \in RowOrders(Len(d.idx)) :
                     \A i \in 1..(Len(d.idx) - 1) :
                         DateLeq(d.idx[q[i]], d.idx[q[i + 1]])}}

PctCell(c) == Mul001(AsFloat(StrReplacePct(c)))

\* df[name] = df[name].str.replace('%', '').astype(float).mul(0.01)
PctColumn(d, name) ==
    LET p == ColPos(d, name)
    IN  IF p = 0 THEN Raise
        ELSE SetColumn(d, p, [i \in 1..Len(d.rows) |-> PctCell(d.rows[i][p])])

LoopCell(c) == AsFloat(ReplaceDash(c))

\* The body of the loop for the column at position p:
\* df[c] = df[c].replace('-', np.nan); df[c] = df[c].astype(float)
LoopBody(d, p) ==
    SetColumn(d, p, [i \in 1..Len(d.rows) |-> LoopCell(d.rows[i][p])])

(* ------------------------- the fetched tables ------------------------- *)

\* The header of the source table, in source order.
FullHeader == <<ColDate, ColF1, ColContango21, ColContango74, ColCon74div3>>

\* The headers a fetched table may carry: the full one, or the full one
\* without one of the columns the code names.
Headers ==
    {FullHeader} \cup {RemoveAt(FullHeader, p) : p \in {1, 3, 4, 5}}

DayTexts == <<<<"0", "1">>, <<"0", "2">>, <<"0", "3">>, <<"0", "4">>,
              <<"0", "5">>, <<"0", "6">>, <<"0", "7">>, <<"0", "8">>>>

\* The well-formed cell of data row r (from 1) under column name: the
\* table lists the newest day first, as the source does.
DefaultCell(name, r) ==
    IF name = ColDate
    THEN Str(<<"2", "0", "2", "0", "-", "0", "1", "-">> \o DayTexts[MaxDataRows + 2 - r])
    ELSE IF name = ColF1 THEN Str(<<"1", DigitChars[r + 1]>>)
    ELSE Str(<<DigitChars[r + 1], "%">>)

\* The other cells a data row may hold under column name.
OddCells(name) ==
    IF name = ColDate
    THEN {Str(<<"2", "0", "2", "0", "-", "0", "1", "-", "0", "2">>),
          Str(<<"2", "0", "2", "0", "-", "1", "-", "2">>),
          Str(<<"2", "0", "2", "0", "-", "0", "2", "-", "3", "0">>),
          NaN}
    ELSE IF name = ColF1
    THEN {Str(<<"-", "5">>), Str(<<"-">>), Str(<<"5", "%">>),
          Str(<<"i", "n", "f">>), Str(<<"x">>), NaN}
    ELSE {Str(<<"-", "5", "%">>), Str(<<"-">>), Str(<<"%", "5">>),
          Str(<<"i", "n", "f">>), Str(<<"x">>), NaN}

HeaderRow(h) == [j \in 1..Len(h) |-> Str(h[j])]

\* The footer of the source table: a summary row, not data.
FooterRow(h) == [j \in 1..Len(h) |-> Str(<<"x">>)]

DefaultRows(h, n) ==
    <<HeaderRow(h)>>
    \o [r \in 1..n |-> [j \in 1..Len(h) |-> DefaultCell(h[j], r)]]
    \o <<FooterRow(h)>>

\* The tables that differ from table t in at most k data cells, none of
\* them before cell q, the data cells counted row by row from 1.
RECURSIVE WithOdd(_, _, _)
WithOdd(t, k, q) ==
    IF k = 0 THEN {t}
    ELSE {t} \cup
         UNION {LET r == 2 + ((p - 1) \div Len(FullHeader))
                    j == 1 + ((p - 1) % Len(FullHeader))
                IN  UNION {WithOdd([t EXCEPT ![r][j] = c], k - 1, p + 1) :
                             c \in OddCells(FullHeader[j])} :
                  p \in q..((Len(t) - 2) * Len(FullHeader))}

\* What read_html may return: a table with no row, the header copy
\* alone, a header short of one named column over well-formed rows, and
\* the full header over rows of which at most MaxOddCells cells are odd.
RawTables ==
    {<<>>, <<HeaderRow(FullHeader)>>}
    \cup {DefaultRows(h, n) : h \in Headers, n \in 0..MaxDataRows}
    \cup UNION {WithOdd(DefaultRows(FullHeader, n), MaxOddCells, 1) :
                   n \in 0..MaxDataRows}

(* ------------------------------ the file ------------------------------ *)

\* <destination_folder>/vix_contago.csv: st is "absent", "old" (what an
\* earlier run left), "partial" (opened for writing, cut before the end)
\* or "full" (the whole frame written).
AbsentFile == [st |-> "absent", cols |-> <<>>, idx |-> <<>>, rows |-> <<>>]

OldFile == [st |-> "old", cols |-> <<>>, idx |-> <<>>, rows |-> <<>>]

\* The file holding the first n rows of frame d.
Written(d, st, n) ==
    [st |-> st, cols |-> d.cols, idx |-> SubSeq(d.idx, 1, n),
     rows |-> SubSeq(d.rows, 1, n)]

\* The result of the function ignored.
ExitCodeIgnoringResult(r) == 0

\* sys.exit(0) when the function returned True, sys.exit(1) otherwise.
ExitCode(r) == IF r = "True" THEN 0 ELSE 1

(* ------------------------------ actions ------------------------------- *)

Init ==
    /\ pc = "main"
    /\ argv \in {<<"process_contango.py">>, <<"process_contango.py", "out">>}
    /\ df = NoDf
    /\ ci = 1
    /\ file \in {AbsentFile, OldFile}
    /\ file0 = file
    /\ ret = "none"
    /\ exitcode = -1
    /\ raw = <<>>
    /\ failedAt = "none"

\* A statement of the try block that raised: control goes to the handler.
Raised(line) ==
    /\ pc' = "L32"
    /\ failedAt' = line
    /\ UNCHANGED <<argv, df, ci, file, ret, exitcode, raw, file0>>

\* A statement of the try block that turns the frame into d, or raises.
Statement(line, d, next) ==
    /\ pc = line
    /\ IF d.err
       THEN Raised(line)
       ELSE /\ df' = d
            /\ pc' = next
            /\ UNCHANGED <<argv, ci, file, ret, exitcode, raw, file0, failedAt>>

\* Lines 35-36: sys.argv[1] is read before the call; without an argument
\* it raises IndexError outside any handler and the interpreter exits 1.
Main ==
    /\ pc = "main"
    /\ IF Len(argv) < 2
       THEN /\ pc' = "exit"
            /\ exitcode' = 1
            /\ failedAt' = "L36"
            /\ UNCHANGED <<argv, df, ci, file, ret, raw, file0>>
       ELSE /\ pc' = "L15"
            /\ UNCHANGED <<argv, df, ci, file, ret, exitcode, raw, file0, failedAt>>

\* Line 15: the fetch raises, or returns a table.
ReadHtml ==
    /\ pc = "L15"
    /\ \/ Raised("L15")
       \/ \E t \in RawTables :
            /\ df' = RawFrame(t)
            /\ raw' = t
            /\ pc' = "L16"
            /\ UNCHANGED <<argv, ci, file, ret, exitcode, file0, failedAt>>

Line16 == Statement("L16", SetColumns(df), "L17")

Line17 == Statement("L17", DropFirst(df), "L18")

Line18 == Statement("L18", DropLast(df), "L19")

Line19 == Statement("L19", ToDatetime(df), "L20")

Line20 ==
    /\ pc = "L20"
    /\ \E d \in SortIndex(SetIndex(df)) : Statement("L20", d, "L21")

Line21 == Statement("L21", PctColumn(df, ColContango21), "L22")

Line22 == Statement("L22", PctColumn(df, ColContango74), "L23")

Line23 == Statement("L23", PctColumn(df, ColCon74div3), "L24")

\* Lines 24-26: one turn of the loop over the columns, or its end.
Loop ==
    /\ pc = "L24"
    /\ IF ci > Len(df.cols)
       THEN /\ pc' = "L28"
            /\ UNCHANGED <<argv, df, ci, file, ret, exitcode, raw, file0, failedAt>>
       ELSE LET d == LoopBody(df, ci)
            IN  IF d.err
                THEN Raised("L26")
                ELSE /\ df' = d
                     /\ ci' = ci + 1
                     /\ UNCHANGED <<pc, argv, file, ret, exitcode, raw, file0, failedAt>>

\* Line 28: to_csv opens the destination for writing, which truncates it,
\* writes the rows and closes it.  The open may raise (nothing is touched),
\* a write may raise after any number of rows, or all of it succeeds.
ToCsv ==
    /\ pc = "L28"
    /\ \/ Raised("L28")
       \/ \E n \in 0..Len(df.rows) :
            /\ file' = Written(df, "partial", n)
            /\ pc' = "L32"
            /\ failedAt' = "L28"
            /\ UNCHANGED <<argv, df, ci, ret, exitcode, raw, file0>>
       \/ /\ file' = Written(df, "full", Len(df.rows))
          /\ pc' = "L30"
          /\ UNCHANGED <<argv, df, ci, ret, exitcode, raw, file0, failedAt>>

\* Line 30.
ReturnTrue ==
    /\ pc = "L30"
    /\ ret' = "True"
    /\ pc' = "L36"
    /\ UNCHANGED <<argv, df, ci, file, exitcode, raw, file0, failedAt>>

\* Lines 31-33.
Except ==
    /\ pc = "L32"
    /\ ret' = "False"
    /\ pc' = "L36"
    /\ UNCHANGED <<argv, df, ci, file, exitcode, raw, file0, failedAt>>

\* Lines 36-39.
Exit ==
    /\ pc = "L36"
    /\ exitcode' = ExitCode(ret)
    /\ pc' = "exit"
    /\ UNCHANGED <<argv, df, ci, file, ret, raw, file0, failedAt>>

Next ==
    \/ Main
    \/ ReadHtml
    \/ Line16
    \/ Line17
    \/ Line18
    \/ Line19
    \/ Line20
    \/ Line21
    \/ Line22
    \/ Line23
    \/ Loop
    \/ ToCsv
    \/ ReturnTrue
    \/ Except
    \/ Exit

Spec == Init /\ [][Next]_vars

(* ----------------- the function without its control ------------------- *)

RECURSIVE LoopFrom(_, _)
LoopFrom(d, p) ==
    IF d.err \/ p > Len(d.cols) THEN d ELSE LoopFrom(LoopBody(d, p), p + 1)

\* Lines 16-26 on the fetched table t, the rows left in table order (the
\* sort only permutes rows, and src names each row): the frame handed to
\* to_csv, or Raise.
Normalized(t) ==
    LET Then(d, f(_)) == IF d.err THEN d ELSE f(d)
        Pct21(d) == PctColumn(d, ColContango21)
        Pct74(d) == PctColumn(d, ColContango74)
        Pct74d3(d) == PctColumn(d, ColCon74div3)
        LoopAll(d) == LoopFrom(d, 1)
    IN  Then(Then(Then(Then(Then(Then(Then(Then(Then(RawFrame(t),
            SetColumns), DropFirst), DropLast), ToDatetime), SetIndex),
            Pct21), Pct74), Pct74d3), LoopAll)

(* ------------------- vocabulary of the properties --------------------- *)

\* The number of rows of the fetched table.
RawRowCount == Len(raw)

\* The position of column name in the fetched table's first row, or 0.
RawPos(name) ==
    IF raw # <<>> /\ \E j \in 1..Len(raw[1]) : raw[1][j] = Str(name)
    THEN CHOOSE j \in 1..Len(raw[1]) : raw[1][j] = Str(name)
    ELSE 0

\* The table positions (from 1) of the data rows.
DataRows == 2..(RawRowCount - 1)

IsPctName(name) == \E q \in 1..Len(PctColumns) : PctColumns[q] = name

\* The fetched cell that row i, column j of the frame came from.
RawCellOf(i, j) == raw[df.src[i] + 1][RawPos(df.cols[j].s)]

\* The frame is the one line 28 writes, or has written.
AtWrite == pc \in {"L28", "L30"}

\* Every data row carries a date text the parser accepts.
AcceptedDates ==
    /\ RawRowCount >= 2
    /\ RawPos(ColDate) # 0
    /\ \A r \in DataRows :
          /\ raw[r][RawPos(ColDate)].k = "str"
          /\ ParseDate(raw[r][RawPos(ColDate)].s) # Err

HasNamedColumns ==
    /\ RawPos(ColDate) # 0
    /\ \A q \in 1..Len(PctColumns) : RawPos(PctColumns[q]) # 0

\* s with one trailing '%' taken off, if it ends in one.
StripTrailingPct(s) ==
    IF s # <<>> /\ s[Len(s)] = "%" THEN SubSeq(s, 1, Len(s) - 1) ELSE s

\* x is y times 0.01.
IsHundredthOf(x, y) ==
    /\ x.k = y.k
    /\ x.k \in {"num", "inf", "nan"}
    /\ x.k = "num" => x.v * PctDivisor = y.v
    /\ x.k = "inf" => x.v = y.v

IsDash(c) == c.k = "str" /\ c.s = <<"-">>

\* A minus sign and digits: a negative number.
IsNegativeText(s) == Len(s) >= 2 /\ s[1] = "-" /\ AllDigits(Tail(s))

(* ------------------------------- claims ------------------------------- *)

\* C1: all-or-nothing output.  At every moment the destination file is
\* either as it was before the run or holds the whole normalized frame,
\* and once any step has raised the file is as it was before the run.
C1_AllOrNothing ==
    /\ \/ file = file0
       \/ file = Written(df, "full", Len(df.rows))
    /\ failedAt # "none" => file = file0

\* C2: exit contract.  The process exits 0 exactly when the function
\* returned True, which happens exactly when no step raised and the whole
\* frame is in the file; every other run exits 1.
C2_ExitContract ==
    /\ pc # "exit" => exitcode = -1
    /\ pc = "exit" =>
          /\ exitcode \in {0, 1}
          /\ exitcode = 0 <=> ret = "True"
          /\ ret = "True" <=> failedAt = "none"
          /\ failedAt = "none" => file = Written(df, "full", Len(df.rows))
    /\ ret = "none" => (pc # "exit" \/ failedAt = "L36")

\* C2 witness: a run whose write raised has exited with code 1.
C2_Witness ==
    pc = "exit" /\ exitcode = 1 /\ ret = "False" /\ failedAt = "L28"

\* C3 as stated: when every data row carries an accepted date text, the
\* index of the frame that reaches the write strictly ascends.
C3_StrictlyAscending ==
    (AtWrite /\ AcceptedDates) =>
        \A i \in 1..(Len(df.idx) - 1) : df.idx[i].v < df.idx[i + 1].v

\* The dates of the data rows, parsed, are pairwise different.
DistinctRawDates ==
    \A r1, r2 \in DataRows :
        r1 # r2 => ParseDate(raw[r1][RawPos(ColDate)].s)
                     # ParseDate(raw[r2][RawPos(ColDate)].s)

\* C3 amended: when every data row carries an accepted date text, the
\* index of the frame that reaches the write ascends without descending,
\* each row keeps its own date, a date occurs as often as in the fetched
\* table, and the index strictly ascends exactly when the data rows'
\* dates are pairwise different.
C3_Ascending ==
    (AtWrite /\ AcceptedDates) =>
        /\ \A i \in 1..(Len(df.idx) - 1) :
              df.idx[i].k = "date" /\ df.idx[i].v <= df.idx[i + 1].v
        /\ \A i \in 1..Len(df.idx) :
              df.idx[i] = ParseDate(raw[df.src[i] + 1][RawPos(ColDate)].s)
        /\ Len(df.idx) = RawRowCount - 2
        /\ DistinctRawDates <=>
              \A i \in 1..(Len(df.idx) - 1) : df.idx[i].v < df.idx[i + 1].v
        /\ pc = "L30" => file.idx = df.idx

\* C3 witness: a frame of two rows whose date texts differ and name the
\* same day has been written, the day twice in its index.
C3_Witness ==
    /\ pc = "L30"
    /\ AcceptedDates
    /\ \E i \in 1..(Len(file.idx) - 1) :
          /\ file.idx[i] = file.idx[i + 1]
          /\ raw[df.src[i] + 1][RawPos(ColDate)]
               # raw[df.src[i + 1] + 1][RawPos(ColDate)]

\* The statements after line 18 have the frame line 18 left, up to the
\* values and the order of its rows.
PastDrops ==
    \/ pc \in {"L19", "L20", "L21", "L22", "L23", "L24", "L28", "L30"}
    \/ failedAt \in {"L19", "L20", "L21", "L22", "L23", "L26", "L28"}
    \/ ret = "True"

\* C5: a fetched table of at least two rows passes lines 16-18, and the
\* frame they leave has exactly the rows of the table but its first and
\* its last: raw_row_count - 2 rows, each table row between the first and
\* the last exactly once, unchanged.
C5_RowCount ==
    RawRowCount >= 2 =>
        /\ failedAt \notin {"L16", "L17", "L18"}
        /\ PastDrops =>
              /\ Len(df.rows) = RawRowCount - 2
              /\ \A r \in 1..(RawRowCount - 2) :
                    \E i \in 1..Len(df.src) : df.src[i] = r
              /\ \A i \in 1..Len(df.src) :
                    df.src[i] # 0 /\ df.src[i] # RawRowCount - 1
        /\ pc = "L19" => df.rows = SubSeq(raw, 2, RawRowCount - 1)
        /\ file.st = "full" => Len(file.rows) = RawRowCount - 2

\* C5 witness: a two-row table has been written as an empty frame.
C5_Witness ==
    RawRowCount = 2 /\ pc = "L30" /\ file.st = "full" /\ file.rows = <<>>

\* C6 as stated: in the frame that reaches the write, each cell of the
\* three percentage columns fetched as a text is 0.01 times the number
\* spelled by the text without its one trailing '%'.
C6_TrailingPctOnly ==
    AtWrite =>
        \A i \in 1..Len(df.rows), j \in 1..Len(df.cols) :
            (IsPctName(df.cols[j].s) /\ RawCellOf(i, j).k = "str") =>
                IsHundredthOf(df.rows[i][j],
                              ParseFloat(StripTrailingPct(RawCellOf(i, j).s)))

\* C6 amended: in the frame that reaches the write, each cell of the three
\* percentage columns fetched as a text is 0.01 times the number spelled
\* by the text without any of its '%' characters, wherever they stand (so
\* "X%" with X a number gives X / 100); a cell of another column fetched
\* as a text other than "-" is the number the text spells, not scaled.
C6_PctScaled ==
    AtWrite =>
        \A i \in 1..Len(df.rows), j \in 1..Len(df.cols) :
            RawCellOf(i, j).k = "str" =>
                IF IsPctName(df.cols[j].s)
                THEN /\ IsHundredthOf(df.rows[i][j],
                                      ParseFloat(RemoveAll(RawCellOf(i, j).s, "%")))
                     /\ AllDigits(StripTrailingPct(RawCellOf(i, j).s)) =>
                           df.rows[i][j]
                             = Num(DigitsValue(StripTrailingPct(RawCellOf(i, j).s)))
                ELSE IsDash(RawCellOf(i, j)) \/ df.rows[i][j] = ParseFloat(RawCellOf(i, j).s)

\* C6 witness: a percentage cell fetched as "%5" has reached the write
\* as 0.05, beside a cell fetched as "1%" or "2%" that reached it as 0.01
\* or 0.02.
C6_Witness ==
    /\ AtWrite
    /\ \E i \in 1..Len(df.rows), j \in 1..Len(df.cols) :
          /\ IsPctName(df.cols[j].s)
          /\ RawCellOf(i, j) = Str(<<"%", "5">>)
          /\ df.rows[i][j] = Num(5)
    /\ \E i \in 1..Len(df.rows), j \in 1..Len(df.cols), n \in 1..2 :
          /\ IsPctName(df.cols[j].s)
          /\ RawCellOf(i, j) = Str(<<DigitChars[n + 1], "%">>)
          /\ df.rows[i][j] = Num(n)

\* C7 as stated: every cell of the frame that reaches the write, and of
\* the written file, is a finite float or missing.
C7_FiniteOrMissing ==
    /\ AtWrite =>
          \A i \in 1..Len(df.rows), j \in 1..Len(df.cols) :
              df.rows[i][j].k \in {"num", "nan"}
    /\ \A i \in 1..Len(file.rows), j \in 1..Len(file.cols) :
          file.rows[i][j].k \in {"num", "nan"}

\* C7 amended: every cell of the frame that reaches the write, and of the
\* written file, is a float (finite, or an infinity spelled by the cell
\* text) or missing; no text remains.
C7_FloatOrMissing ==
    /\ AtWrite =>
          \A i \in 1..Len(df.rows), j \in 1..Len(df.cols) :
              df.rows[i][j].k \in {"num", "inf", "nan"}
    /\ \A i \in 1..Len(file.rows), j \in 1..Len(file.cols) :
          file.rows[i][j].k \in {"num", "inf", "nan"}

\* C7 witness: a file has been written whole with an infinity in it.
C7_Witness ==
    /\ file.st = "full"
    /\ \E i \in 1..Len(file.rows), j \in 1..Len(file.cols) :
          file.rows[i][j].k = "inf"

\* A data row's Date value is a text the date parser rejects.
UnparseableDate ==
    /\ RawPos(ColDate) # 0
    /\ \E r \in DataRows :
          /\ raw[r][RawPos(ColDate)].k = "str"
          /\ ParseDate(raw[r][RawPos(ColDate)].s) = Err

\* A data cell is a text that spells no number once its '%' are taken
\* off (in a percentage column) and is not the text "-".
NonNumericCell ==
    \E r \in DataRows, j \in 1..Len(raw[1]) :
        /\ raw[1][j] # Str(ColDate)
        /\ raw[r][j].k = "str"
        /\ ~IsDash(raw[r][j])
        /\ ParseFloat(IF IsPctName(raw[1][j].s)
                      THEN RemoveAll(raw[r][j].s, "%")
                      ELSE raw[r][j].s) = Err

FailureTrigger ==
    /\ raw # <<>>
    /\ \/ ~HasNamedColumns
       \/ UnparseableDate
       \/ NonNumericCell

WithNumberAt(r, j) == [raw EXCEPT ![r][j] = Str(<<"7">>)]

\* The position in frame d of the row that came from table row label s.
RowFrom(d, s) == CHOOSE q \in 1..Len(d.src) : d.src[q] = s

\* C9: when the frame that reaches the write has a row fetched with "-"
\* in a column that is no percentage column, that cell is missing in the
\* frame, and every other cell and every date of the frame is what the
\* function computes for it from the same table with a number in place of
\* that "-".
C9_DashFrame ==
    AtWrite =>
        \A i \in 1..Len(df.rows), j \in 1..Len(df.cols) :
            (~IsPctName(df.cols[j].s) /\ IsDash(RawCellOf(i, j))) =>
                LET other == Normalized(WithNumberAt(df.src[i] + 1,
                                                     RawPos(df.cols[j].s)))
                IN  /\ df.rows[i][j] = NaN
                    /\ ~other.err
                    /\ other.cols = df.cols
                    /\ Len(other.rows) = Len(df.rows)
                    /\ \A i2 \in 1..Len(df.rows) :
                          /\ df.idx[i2] = other.idx[RowFrom(other, df.src[i2])]
                          /\ \A j2 \in 1..Len(df.cols) :
                                (i2 # i \/ j2 # j) =>
                                    df.rows[i2][j2]
                                      = other.rows[RowFrom(other, df.src[i2])][j2]

\* C9 witness: a frame of two rows, one fetched with "-" under F1, has
\* reached the write with numbers in its other cells.
C9_Witness ==
    /\ AtWrite
    /\ Len(df.rows) >= 2
    /\ \E i \in 1..Len(df.rows), j \in 1..Len(df.cols) :
          /\ df.cols[j] = Str(ColF1)
          /\ IsDash(RawCellOf(i, j))
          /\ df.rows[i][j] = NaN
          /\ \A i2 \in 1..Len(df.rows), j2 \in 1..Len(df.cols) :
                (i2 # i \/ j2 # j) => df.rows[i2][j2].k = "num"

\* Every data cell of the fetched table is a number or a negative number
\* (with a '%' after it in the percentage columns) under the full header,
\* and every date is accepted.
OnlySignedNumbers ==
    /\ HasNamedColumns
    /\ AcceptedDates
    /\ \A r \in DataRows, j \in 1..Len(raw[1]) :
          raw[1][j] # Str(ColDate) =>
              /\ raw[r][j].k = "str"
              /\ LET s == IF IsPctName(raw[1][j].s)
                          THEN StripTrailingPct(raw[r][j].s)
                          ELSE raw[r][j].s
                 IN  AllDigits(s) \/ IsNegativeText(s)

\* C10: a cell fetched as a minus sign followed by digits (and a '%' in
\* a percentage column) reaches the write as that negative number (times
\* 0.01 in a percentage column), not as a missing value, and a table of
\* such cells and plain numbers raises in none of lines 16-26.
C10_NegativeKept ==
    /\ AtWrite =>
          \A i \in 1..Len(df.rows), j \in 1..Len(df.cols) :
              LET c == RawCellOf(i, j)
                  s == IF IsPctName(df.cols[j].s)
                       THEN StripTrailingPct(c.s)
                       ELSE c.s
              IN  (c.k = "str" /\ IsNegativeText(s)) =>
                      df.rows[i][j] =
                          Num(IF IsPctName(df.cols[j].s)
                              THEN 0 - DigitsValue(Tail(s))
                              ELSE 0 - DigitsValue(Tail(s)) * PctDivisor)
    /\ failedAt \in {"none", "L28"} \/ ~OnlySignedNumbers

\* C10 witness: a percentage cell fetched as "-5%" has reached the write
\* as -0.05.
C10_Witness ==
    /\ AtWrite
    /\ \E i \in 1..Len(df.rows), j \in 1..Len(df.cols) :
          /\ IsPctName(df.cols[j].s)
          /\ RawCellOf(i, j) = Str(<<"-", "5", "%">>)
          /\ df.rows[i][j] = Num(0 - 5)

\* Under the full header with accepted dates, every data cell is a
\* number (with '%' in the percentage columns), missing, or the text "-".
OnlyNumbersAndDashes ==
    /\ HasNamedColumns
    /\ AcceptedDates
    /\ \A r \in DataRows, j \in 1..Len(raw[1]) :
          raw[1][j] # Str(ColDate) =>
              \/ raw[r][j].k = "nan"
              \/ IsDash(raw[r][j])
              \/ /\ raw[r][j].k = "str"
                 /\ ParseFloat(IF IsPctName(raw[1][j].s)
                               THEN RemoveAll(raw[r][j].s, "%")
                               ELSE raw[r][j].s) # Err

\* C4: "-" becomes a missing value in every column.  A table whose data
\* cells are numbers and "-" raises in none of lines 16-26, and each cell
\* fetched as "-" is missing in the frame that reaches the write.
C4_DashIsMissing ==
    /\ failedAt \in {"none", "L28"} \/ ~OnlyNumbersAndDashes
    /\ AtWrite =>
          \A i \in 1..Len(df.rows), j \in 1..Len(df.cols) :
              IsDash(RawCellOf(i, j)) => df.rows[i][j] = NaN

====
